---- MODULE Spec2Model ----
(***************************************************************************)
(* Event ingestion pipeline of the user-management backend.                *)
(*                                                                         *)
(*  - EventStreaming (services/event_streaming.py): the in-memory event    *)
(*    bus, run by one asyncio event loop.  A publish_event call is a       *)
(*    coroutine; coroutines interleave only where one of them suspends in  *)
(*    an await.                                                            *)
(*  - StreamProcessor (data_engineering/streaming/stream_processor.py):    *)
(*    a queue.Queue drained by daemon worker threads.                      *)
(***************************************************************************)
EXTENDS Integers, Sequences, FiniteSets, TLC

(***************************************************************************)
(* Bounds of the model and program constants.                              *)
(***************************************************************************)
MaxPublish == 3        \* publish_event calls in a run of Spec
MaxConsumers == 2      \* registered consumers in a run of Spec
MaxLimit == 4          \* largest limit passed to get_recent_events
BurstExtra == 2        \* publishes beyond HistoryLimit in a run of SpecBurst
MaxSpPublish == 2      \* StreamProcessor.publish_event calls in a run of SpecSP
MaxThreads == 2        \* worker threads alive at once in a run of SpecSP
MaxWinPublish == 1     \* StreamProcessor.publish_event calls in a run of SpecStats
MaxTicks == 3          \* clock advances in a run of SpecStats
MaxFires == 2          \* scheduled times of one job that come in a run of SpecSched
MaxRequests == 2       \* register/login requests handled in a run of SpecAuth
MaxAttempts == 5       \* failed logins of one user from one address in the table of SpecAlerts
MaxCalls == 3          \* rows in the table of SpecUsage
MaxLogins == 2         \* rows in the table of SpecDaily
MaxEtlTicks == 2       \* clock advances in a run of SpecDaily
TopEndpoints == 10     \* most_popular_endpoints keeps the first 10
BehaviorLimit == 100   \* extract_user_behavior_patterns reads the last 100 rows
MaxUsers == 5          \* rows of the users table
MinUsers == 5          \* predictive_insights: if len(users) < 5
AgeThresholdDays == 30 \* churn score: account_age_days > 30
AgeWeight == 3         \* churn score weights, in tenths
ActivityWeight == 4
ProfileWeight == 3
UsageDays == 7         \* the default window of extract_api_usage_stats and extract_daily_login_stats
WindowSeconds == 300   \* the 5-minute lookback of get_real_time_stats
SecondsPerDay == 86400 \* timedelta.seconds is the time of day part of a difference
HistoryLimit == 1000   \* N of the bus history (events.py asks for the last 1000)
KeepLast == 1000       \* processed events kept by the worker

Publishers == {"p1", "p2"}
\* Each publisher is one EventPublisher entry point, with its event type.
EventTypeOf(p) == IF p = "p1" THEN "api_call" ELSE "login"
\* What a registered consumer coroutine does when awaited with an event:
\* return at once, raise an Exception, suspend in an await of its own and
\* complete later, or suspend and never complete.
ConsumerKinds == {"ok", "raise", "slow", "hang"}

VARIABLES
    event_queue,   \* EventStreaming.event_queue: the bus history
    consumers,     \* EventStreaming.consumers: what each registered consumer does
    calls,         \* the publish_event calls made so far, by call number
    running,       \* the call whose coroutine holds the event loop, 0 when none does
    delivered,     \* per consumer, the call numbers of the events it was invoked with
    reg_at,        \* per consumer, the number of publishes made before it was registered
    published,     \* number of publish_event calls made
    recent,        \* the last get_recent_events call: limit, history read, result
    sp_queue,      \* StreamProcessor.event_queue
    processed_events, \* StreamProcessor.processed_events
    is_running,    \* StreamProcessor.is_running
    w_pc,          \* per worker thread, its position in stream_worker
    w_event,       \* per worker thread, the event it took from the queue
    sp_published,  \* number of StreamProcessor.publish_event calls made
    checks_after_stop, \* per worker thread, loop tests made with the flag cleared since the last stop
    sp_sent,       \* the events handed to StreamProcessor.publish_event, by number
    sp_errors,     \* numbers of the events whose processing was reported as failed
    now,           \* the wall clock, in seconds
    stats,         \* the last get_real_time_stats result, with when and on what it was taken
    ticks,         \* number of clock advances made
    sch_pc,        \* BatchProcessor.run_scheduler: where its thread stands
    sch_todo,      \* the due jobs run_pending still has to run, in order
    sch_active,    \* the runs in progress, as <<job, run number, sch_fires of the job at its start>>
    should_run,    \* per job: its next_run time has come
    sch_fires,     \* per job: scheduled times that have come so far
    sch_runs,      \* per job: runs started so far
    sch_late,      \* per job: scheduled times that came during a run of that job
    sch_raised,    \* the jobs whose function has raised
    stop_requested,   \* somebody has asked the scheduler to stop
    loops_after_stop, \* loop iterations begun since then
    kafka_producer,   \* RealKafkaProcessor.producer: "unset", "ready" or "none"
    requests,         \* the register/login requests being handled, per slot
    activity_log,     \* the UserActivityLog rows committed, in order
    log_table,        \* the user_activity_logs table the analytics queries read, in id order
    etl_now,          \* datetime.utcnow() of the analytics queries, in hours
    etl_result,       \* the result of the last analytics query on the table as it is
    user_table        \* the users table the advanced analytics read, in id order

busVars == <<event_queue, consumers, calls, running, delivered, reg_at, published, recent>>
spVars == <<sp_queue, processed_events, is_running, w_pc, w_event, sp_published, checks_after_stop,
           sp_sent, sp_errors, now, stats, ticks>>
schVars == <<sch_pc, sch_todo, sch_active, should_run, sch_fires, sch_runs, sch_late,
            sch_raised, stop_requested, loops_after_stop>>
authVars == <<kafka_producer, requests, activity_log>>
etlVars == <<log_table, etl_now, etl_result, user_table>>
vars == <<busVars, spVars, schVars, authVars, etlVars>>

(***************************************************************************)
(* Python list operations.                                                 *)
(***************************************************************************)
Min(a, b) == IF a < b THEN a ELSE b
Max(a, b) == IF a > b THEN a ELSE b

\* seq[start:] with Python's index normalisation: a negative start counts
\* from the end and is clamped at 0, a start past the end gives [].
PySliceFrom(seq, start) ==
    LET n == Len(seq)
        s == IF start < 0 THEN Max(n + start, 0) ELSE Min(start, n)
    IN  SubSeq(seq, s + 1, n)

\* self.event_queue[-limit:] if self.event_queue else []
GetRecentSlice(queue, limit) ==
    IF queue # <<>> THEN PySliceFrom(queue, -limit) ELSE <<>>

\* self.event_queue.append(event_data); and two faulty variants, an insert
\* at the front and a publish that loses the event.
QueuePrepend(queue, event) == <<event>> \o queue
QueueDrop(queue, event) == queue
QueueAppend(queue, event) == Append(queue, event)

(***************************************************************************)
(* EventStreaming                                                          *)
(***************************************************************************)
EventData(id, ty) == [id |-> id, event_type |-> ty]

\* `except Exception as e`: the handler takes every Exception.
\* (CatchesNothing: a handler naming a class the exception is not in.)
CatchesNothing(exc) == FALSE
ExceptException(exc) == exc = "Exception"

\* The try/except around each consumer in _notify_consumers.
\* (NotIsolated: the loop without its own try/except.)
NotIsolated(exc) == FALSE
ConsumerErrorIsolated(exc) == ExceptException(exc)

\* The try/except around the body of publish_event.
PublishErrorCaught(exc) == ExceptException(exc)

InFlight(c) == calls[c].pc \in {"notify", "awaiting", "blocked"}

\* publish_event awaits _notify_consumers and the publisher awaits
\* publish_event: a publisher has at most one call in flight.
\* (NeverBlocked: dispatch started without being awaited.)
NeverBlocked(p) == FALSE
PublisherBlocked(p) == \E c \in 1..Len(calls) : calls[c].owner = p /\ InFlight(c)

BusInit ==
    /\ event_queue = <<>>
    /\ consumers = <<>>
    /\ calls = <<>>
    /\ running = 0
    /\ delivered = <<>>
    /\ reg_at = <<>>
    /\ published = 0
    /\ recent = [limit |-> -1, read |-> <<>>, result |-> <<>>]

\* The module-level event_streamer, with its three consumers registered.
BusInitGlobal ==
    /\ event_queue = <<>>
    /\ consumers = <<"ok", "ok", "ok">>
    /\ calls = <<>>
    /\ running = 0
    /\ delivered = <<<<>>, <<>>, <<>>>>
    /\ reg_at = <<0, 0, 0>>
    /\ published = 0
    /\ recent = [limit |-> -1, read |-> <<>>, result |-> <<>>]

RegisterConsumer(kind) ==
    /\ running = 0
    /\ Len(consumers) < MaxConsumers
    /\ consumers' = Append(consumers, kind)
    /\ delivered' = Append(delivered, <<>>)
    /\ reg_at' = Append(reg_at, published)
    /\ UNCHANGED <<event_queue, calls, running, published, recent>>

\* publish_event up to its first await: build event_data, append it to the
\* queue, enter _notify_consumers.
CallPublish(p, ty, cap) ==
    /\ running = 0
    /\ published < cap
    /\ ~PublisherBlocked(p)
    /\ published' = published + 1
    /\ event_queue' = QueueAppend(event_queue, EventData(published + 1, ty))
    /\ calls' = Append(calls, [pc |-> "notify", idx |-> 1, owner |-> p])
    /\ running' = published + 1
    /\ UNCHANGED <<consumers, delivered, reg_at, recent>>

\* One turn of `for consumer in self.consumers`: the loop ends and
\* publish_event returns, or the next consumer is awaited with the event.
NotifyStep(c) ==
    /\ running = c
    /\ calls[c].pc = "notify"
    /\ LET i == calls[c].idx IN
       IF i > Len(consumers)
       THEN /\ calls' = [calls EXCEPT ![c].pc = "returned"]
            /\ running' = 0
            /\ UNCHANGED delivered
       ELSE /\ delivered' = [delivered EXCEPT ![i] = Append(@, c)]
            /\ CASE consumers[i] = "ok" ->
                      /\ calls' = [calls EXCEPT ![c].idx = i + 1]
                      /\ UNCHANGED running
                 [] consumers[i] = "raise" ->
                      IF ConsumerErrorIsolated("Exception")
                      THEN /\ calls' = [calls EXCEPT ![c].idx = i + 1]
                           /\ UNCHANGED running
                      ELSE /\ calls' = [calls EXCEPT ![c].pc =
                                  IF PublishErrorCaught("Exception")
                                  THEN "returned" ELSE "raised"]
                           /\ running' = 0
                 [] consumers[i] = "slow" ->
                      /\ calls' = [calls EXCEPT ![c].pc = "awaiting"]
                      /\ running' = 0
                 [] consumers[i] = "hang" ->
                      /\ calls' = [calls EXCEPT ![c].pc = "blocked"]
                      /\ running' = 0
    /\ UNCHANGED <<event_queue, consumers, reg_at, published, recent>>

\* A consumer that had suspended completes; its publish_event resumes.
ConsumerCompletes(c) ==
    /\ running = 0
    /\ calls[c].pc = "awaiting"
    /\ calls' = [calls EXCEPT ![c].pc = "notify", ![c].idx = @ + 1]
    /\ running' = c
    /\ UNCHANGED <<event_queue, consumers, delivered, reg_at, published, recent>>

\* GET /events/recent: a synchronous route, served from a worker thread.
GetRecentEvents(limit) ==
    /\ recent' = [limit |-> limit, read |-> event_queue,
                  result |-> GetRecentSlice(event_queue, limit)]
    /\ UNCHANGED <<event_queue, consumers, calls, running, delivered, reg_at, published>>

(***************************************************************************)
(* StreamProcessor                                                         *)
(***************************************************************************)
Workers == 1..MaxThreads
SpEventTypes == {"user_registration", "user_login", "test_event"}

\* Event payloads (the `data` dict of publish_event).  A payload that is
\* not a dict (None) has is_dict FALSE; an absent email or full_name reads
\* as the empty string.  An email is a sequence of characters.
DataFull == [is_dict |-> TRUE, id |-> 1, email |-> <<"a", "@", "x">>,
             full_name |-> "Ann", username |-> "ann"]
DataBare == [is_dict |-> TRUE, id |-> 2, email |-> <<"b", "@", "y", "@", "z">>,
             full_name |-> "", username |-> "bob"]
DataPlain == [is_dict |-> TRUE, id |-> 3, email |-> <<"c">>,
              full_name |-> "", username |-> "cy"]
DataNone == [is_dict |-> FALSE, id |-> 0, email |-> <<>>,
             full_name |-> "", username |-> ""]

\* The (event_type, data) pairs publishers hand to publish_event.
SpInputs ==
    { <<"user_registration", DataFull>>, <<"user_registration", DataBare>>,
      <<"user_registration", DataNone>>, <<"user_login", DataPlain>>,
      <<"test_event", DataBare>>, <<"test_event", DataNone>> }

NoEvent == [id |-> 0, event_type |-> "none", data |-> DataNone, timestamp |-> 0]

\* No get_real_time_stats call made yet.
\* (taken, at, pub, read, live: when and on what the call worked;
\* between_steps: no worker was between its append and its trim; before:
\* the same of the call before it.)
NoStatsBefore == [taken |-> FALSE, events_last_5_minutes |-> 0, queue_size |-> 0,
                  at |-> 0, pub |-> 0, read |-> <<>>]
NoStats == [taken |-> FALSE, total_events_processed |-> 0, events_last_5_minutes |-> 0,
            queue_size |-> 0, event_types |-> [ty \in SpEventTypes |-> 0],
            at |-> 0, pub |-> 0, read |-> <<>>, live |-> FALSE, between_steps |-> TRUE,
            before |-> NoStatsBefore]

SPInit ==
    /\ sp_queue = <<>>
    /\ processed_events = <<>>
    /\ is_running = FALSE
    /\ w_pc = [w \in Workers |-> "dead"]
    /\ w_event = [w \in Workers |-> NoEvent]
    /\ sp_published = 0
    /\ checks_after_stop = [w \in Workers |-> 0]
    /\ sp_sent = <<>>
    /\ sp_errors = {}
    /\ now = 0
    /\ stats = NoStats
    /\ ticks = 0

Alive(w) == w_pc[w] # "dead"
LiveWorkers == {w \in Workers : Alive(w)}

\* The branch of stream_worker taken for an event type.
Classify(ty) ==
    CASE ty = "user_registration" -> "registration"
      [] ty = "user_login" -> "login"
      [] OTHER -> "passthrough"

\* email.split('@')[-1]: what follows the last "@", the whole string when
\* it holds none.  (SplitFirst: index [0] in place of [-1].)
LastAt(s) ==
    LET at == {i \in 1..Len(s) : s[i] = "@"}
    IN  IF at = {} THEN 0 ELSE CHOOSE i \in at : \A j \in at : j <= i
FirstAt(s) ==
    LET at == {i \in 1..Len(s) : s[i] = "@"}
    IN  IF at = {} THEN Len(s) + 1 ELSE CHOOSE i \in at : \A j \in at : i <= j
SplitFirst(s) == SubSeq(s, 1, FirstAt(s) - 1)
SplitLast(s) == SubSeq(s, LastAt(s) + 1, Len(s))

\* process_user_registration
ProcessUserRegistration(d, t) ==
    [user_id |-> d.id, registration_time |-> t,
     email_domain |-> SplitLast(d.email), has_full_name |-> d.full_name # ""]

\* process_user_login
ProcessUserLogin(d, t) ==
    [user_id |-> d.id, login_time |-> t, username |-> d.username]

\* user_data.get(...) on a payload that is not a dict raises AttributeError;
\* the pass-through branch does not touch the payload.
ProcessRaises(event) ==
    Classify(event.event_type) \in {"registration", "login"} /\ ~event.data.is_dict

\* `processed` for an event taken from the queue at time t.
ProcessedData(event, t) ==
    CASE Classify(event.event_type) = "registration" -> ProcessUserRegistration(event.data, t)
      [] Classify(event.event_type) = "login" -> ProcessUserLogin(event.data, t)
      [] OTHER -> event.data

\* The test payload of POST /kafka/test-event, and a well-formed payload
\* for the user events.
DefaultData(ty) == IF ty = "test_event" THEN DataBare ELSE DataFull

\* queue.Queue.put: the event goes to the tail of the FIFO queue.
\* (QueuePutFront: a LIFO queue.)
QueuePutFront(queue, event) == <<event>> \o queue
QueuePut(queue, event) == Append(queue, event)

\* self.event_queue.put(event)
SpPublish(ty, data, cap) ==
    /\ sp_published < cap
    /\ sp_published' = sp_published + 1
    /\ LET event == [id |-> sp_published + 1, event_type |-> ty,
                     data |-> data, timestamp |-> now]
       IN  /\ sp_queue' = QueuePut(sp_queue, event)
           /\ sp_sent' = Append(sp_sent, event)
    /\ UNCHANGED <<processed_events, is_running, w_pc, w_event, checks_after_stop,
                   sp_errors, now, stats, ticks>>

\* start_streaming: set the flag and start a new daemon thread, whatever
\* threads are already running.  (The model holds at most MaxThreads live
\* threads.)
StartStreaming ==
    /\ \E w \in Workers : ~Alive(w)
    /\ LET w == CHOOSE x \in Workers : ~Alive(x) /\ \A y \in Workers : ~Alive(y) => x <= y
       IN  w_pc' = [w_pc EXCEPT ![w] = "check"]
    /\ is_running' = TRUE
    /\ checks_after_stop' = [w \in Workers |-> 0]
    /\ UNCHANGED <<sp_queue, processed_events, w_event, sp_published, sp_sent, sp_errors, now, stats, ticks>>

\* stop_streaming: clear the flag.
StopStreaming ==
    /\ is_running' = FALSE
    /\ checks_after_stop' = [w \in Workers |-> 0]
    /\ UNCHANGED <<sp_queue, processed_events, w_pc, w_event, sp_published, sp_sent, sp_errors, now, stats, ticks>>

\* `while self.is_running:`  (LoopForever: `while True:`.)
LoopForever(flag) == TRUE
LoopGuard(flag) == flag

WorkerCheck(w) ==
    /\ w_pc[w] = "check"
    /\ w_pc' = [w_pc EXCEPT ![w] = IF LoopGuard(is_running) THEN "get" ELSE "dead"]
    /\ checks_after_stop' = [checks_after_stop EXCEPT ![w] =
                                IF is_running THEN @ ELSE @ + 1]
    /\ UNCHANGED <<sp_queue, processed_events, is_running, w_event, sp_published, sp_sent, sp_errors, now, stats, ticks>>

\* self.event_queue.get(timeout=1): the head of the queue, or queue.Empty
\* after a second, which the loop answers with `continue`.
WorkerGet(w) ==
    /\ w_pc[w] = "get"
    /\ IF sp_queue # <<>>
       THEN /\ w_event' = [w_event EXCEPT ![w] = Head(sp_queue)]
            /\ sp_queue' = Tail(sp_queue)
            /\ w_pc' = [w_pc EXCEPT ![w] = "process"]
       ELSE /\ w_pc' = [w_pc EXCEPT ![w] = "check"]
            /\ UNCHANGED <<w_event, sp_queue>>
    /\ UNCHANGED <<processed_events, is_running, sp_published, checks_after_stop, sp_sent, sp_errors, now, stats, ticks>>

\* `except Exception as e` at the end of the loop body: the error is
\* printed and the loop goes on.  (WorkerErrorFatal: no such handler, the
\* exception ends the thread.)
WorkerErrorFatal(exc) == FALSE
WorkerErrorCaught(exc) == ExceptException(exc)

\* Classify the event and append the processed event; a processing error
\* leaves the event out.
WorkerProcess(w) ==
    /\ w_pc[w] = "process"
    /\ IF ProcessRaises(w_event[w])
       THEN /\ sp_errors' = sp_errors \cup {w_event[w].id}
            /\ w_pc' = [w_pc EXCEPT ![w] =
                           IF WorkerErrorCaught("Exception") THEN "check" ELSE "dead"]
            /\ w_event' = [w_event EXCEPT ![w] = NoEvent]
            /\ UNCHANGED processed_events
       ELSE /\ processed_events' = Append(processed_events,
                   [id |-> w_event[w].id,
                    original_timestamp |-> w_event[w].timestamp,
                    processed_timestamp |-> now,
                    event_type |-> w_event[w].event_type,
                    processed_data |-> ProcessedData(w_event[w], now)])
            /\ w_pc' = [w_pc EXCEPT ![w] = "trim"]
            /\ UNCHANGED <<w_event, sp_errors>>
    /\ UNCHANGED <<sp_queue, is_running, sp_published, checks_after_stop, sp_sent, now, stats, ticks>>

\* if len(self.processed_events) > 1000  (TrimNever: a list never cut.)
TrimNever(n) == FALSE
TrimDue(n) == n > KeepLast

\* Keep only the last 1000 processed events.
WorkerTrim(w) ==
    /\ w_pc[w] = "trim"
    /\ processed_events' = IF TrimDue(Len(processed_events))
                           THEN PySliceFrom(processed_events, -KeepLast)
                           ELSE processed_events
    /\ w_pc' = [w_pc EXCEPT ![w] = "check"]
    /\ w_event' = [w_event EXCEPT ![w] = NoEvent]
    /\ UNCHANGED <<sp_queue, is_running, sp_published, checks_after_stop, sp_sent, sp_errors, now, stats, ticks>>

\* (now - processed_timestamp).seconds: the seconds field of a timedelta,
\* which leaves the days out.  (ElapsedSeconds: total_seconds().)
ElapsedSeconds(age) == age
TimedeltaSeconds(age) == age % SecondsPerDay

\* The filter of recent_events.  (InWindowPast: an event processed in the
\* very second of the call left out.)
InWindowPast(age) == 0 < TimedeltaSeconds(age) /\ TimedeltaSeconds(age) < WindowSeconds
InWindow(age) == TimedeltaSeconds(age) < WindowSeconds

RecentOf(processed, t) ==
    {i \in 1..Len(processed) : InWindow(t - processed[i].processed_timestamp)}

\* get_real_time_stats, called at any moment from a request thread.
GetRealTimeStats ==
    /\ LET recent_events == RecentOf(processed_events, now)
       IN  stats' = [taken |-> TRUE,
                     total_events_processed |-> Len(processed_events),
                     events_last_5_minutes |-> Cardinality(recent_events),
                     queue_size |-> Len(sp_queue),
                     event_types |-> [ty \in SpEventTypes |->
                         Cardinality({i \in recent_events : processed_events[i].event_type = ty})],
                     at |-> now, pub |-> sp_published, read |-> processed_events,
                     live |-> is_running /\ LiveWorkers # {},
                     between_steps |-> \A w \in Workers : w_pc[w] # "trim",
                     before |-> [taken |-> stats.taken,
                                 events_last_5_minutes |-> stats.events_last_5_minutes,
                                 queue_size |-> stats.queue_size,
                                 at |-> stats.at, pub |-> stats.pub, read |-> stats.read]]
    /\ UNCHANGED <<sp_queue, processed_events, is_running, w_pc, w_event, sp_published,
                   checks_after_stop, sp_sent, sp_errors, now, ticks>>

\* Wall-clock time passes.
TickSteps == {1, WindowSeconds - 1, SecondsPerDay - WindowSeconds}

Tick(d) ==
    /\ ticks < MaxTicks
    /\ ticks' = ticks + 1
    /\ now' = now + d
    /\ UNCHANGED <<sp_queue, processed_events, is_running, w_pc, w_event, sp_published,
                   checks_after_stop, sp_sent, sp_errors, stats>>

WorkerStep(w) == WorkerCheck(w) \/ WorkerGet(w) \/ WorkerProcess(w) \/ WorkerTrim(w)

(***************************************************************************)
(* BatchProcessor: the daily and weekly jobs under the `schedule` library. *)
(***************************************************************************)
Jobs == {"daily", "weekly"}
JobOutcomes == {"ok", "raise"}

SchedInit ==
    /\ sch_pc = "off"
    /\ sch_todo = <<>>
    /\ sch_active = {}
    /\ should_run = [j \in Jobs |-> FALSE]
    /\ sch_fires = [j \in Jobs |-> 0]
    /\ sch_runs = [j \in Jobs |-> 0]
    /\ sch_late = [j \in Jobs |-> 0]
    /\ sch_raised = {}
    /\ stop_requested = FALSE
    /\ loops_after_stop = 0

\* run_scheduler: schedule_jobs(), then enter the loop.
RunScheduler ==
    /\ sch_pc = "off"
    /\ sch_pc' = "loop"
    /\ UNCHANGED <<sch_todo, sch_active, should_run, sch_fires, sch_runs, sch_late,
                   sch_raised, stop_requested, loops_after_stop>>

\* 02:00 (daily) or Sunday 03:00 (weekly) comes: the job's next_run is now in
\* the past.  A time that comes while the job is due or running changes nothing.
Fire(j) ==
    /\ sch_pc # "off"
    /\ sch_fires[j] < MaxFires
    /\ sch_fires' = [sch_fires EXCEPT ![j] = @ + 1]
    /\ should_run' = [should_run EXCEPT ![j] = TRUE]
    /\ sch_late' = [sch_late EXCEPT ![j] = IF \E r \in sch_active : r[1] = j THEN @ + 1 ELSE @]
    /\ UNCHANGED <<sch_pc, sch_todo, sch_active, sch_runs, sch_raised, stop_requested,
                   loops_after_stop>>

\* Somebody wants the scheduler to stop.  BatchProcessor has no method and
\* no flag for it: the request changes nothing the loop reads.
RequestStop ==
    /\ sch_pc # "off"
    /\ ~stop_requested
    /\ stop_requested' = TRUE
    /\ loops_after_stop' = 0
    /\ UNCHANGED <<sch_pc, sch_todo, sch_active, should_run, sch_fires, sch_runs, sch_late,
                   sch_raised>>

\* `while True:`: the loop test reads nothing.
WhileTrue(stop) == TRUE

\* sorted(job for job in self.jobs if job.should_run): daily (02:00) before
\* weekly (03:00).
RunnableJobs ==
    (IF should_run["daily"] THEN <<"daily">> ELSE <<>>) \o
    (IF should_run["weekly"] THEN <<"weekly">> ELSE <<>>)

\* The loop test and the start of schedule.run_pending().
SchedLoop ==
    /\ sch_pc = "loop"
    /\ IF WhileTrue(stop_requested)
       THEN /\ sch_todo' = RunnableJobs
            /\ sch_pc' = IF RunnableJobs = <<>> THEN "sleep" ELSE "run"
            /\ loops_after_stop' = IF stop_requested THEN 1 ELSE 0
       ELSE /\ sch_pc' = "halted"
            /\ UNCHANGED <<sch_todo, loops_after_stop>>
    /\ UNCHANGED <<sch_active, should_run, sch_fires, sch_runs, sch_late, sch_raised,
                   stop_requested>>

\* run_pending calls the next due job in the scheduler thread.
JobStart ==
    /\ sch_pc = "run"
    /\ LET j == Head(sch_todo)
       IN  /\ sch_runs' = [sch_runs EXCEPT ![j] = @ + 1]
           /\ sch_active' = sch_active \cup {<<j, sch_runs[j] + 1, sch_fires[j]>>}
    /\ sch_pc' = "in_job"
    /\ UNCHANGED <<sch_todo, should_run, sch_fires, sch_late, sch_raised, stop_requested,
                   loops_after_stop>>

\* daily_batch_job wraps its body in try/except Exception and returns None;
\* weekly_report has no handler, and neither have run_pending and the loop.
JobCatches(j) == j = "daily"

\* After a run the library computes next_run from the current time, so a
\* scheduled time that came during the run is gone.  (RunAgainIfLate: the
\* missed time is kept and the job is due again at once.)
RunAgainIfLate(came_during_run) == came_during_run
DueAfterRun(came_during_run) == FALSE

\* The job function returns or raises.
JobEnd(j, outcome) ==
    /\ sch_pc = "in_job"
    /\ sch_todo # <<>> /\ Head(sch_todo) = j
    /\ sch_active' = {r \in sch_active : ~(r[1] = j /\ r[2] = sch_runs[j])}
    /\ sch_raised' = IF outcome = "raise" THEN sch_raised \cup {j} ELSE sch_raised
    /\ IF outcome = "raise" /\ ~JobCatches(j)
       THEN /\ sch_pc' = "dead"
            /\ UNCHANGED <<sch_todo, should_run>>
       ELSE /\ should_run' = [should_run EXCEPT ![j] =
                                  DueAfterRun(\E r \in sch_active :
                                      r[1] = j /\ r[2] = sch_runs[j] /\ r[3] < sch_fires[j])]
            /\ sch_todo' = Tail(sch_todo)
            /\ sch_pc' = IF Tail(sch_todo) = <<>> THEN "sleep" ELSE "run"
    /\ UNCHANGED <<sch_fires, sch_runs, sch_late, stop_requested, loops_after_stop>>

\* time.sleep(60) ends.
SchedWake ==
    /\ sch_pc = "sleep"
    /\ sch_pc' = "loop"
    /\ UNCHANGED <<sch_todo, sch_active, should_run, sch_fires, sch_runs, sch_late,
                   sch_raised, stop_requested, loops_after_stop>>

(***************************************************************************)
(* The register and login handlers with the Kafka producer.                *)
(***************************************************************************)
Slots == 1..MaxRequests
RequestKinds == {"register", "login"}
\* create_user / authenticate_user: done, no such user or wrong password
\* (login only), or an exception from the database layer.
DbOutcomes(kind) == IF kind = "login" THEN {"ok", "invalid", "error"} ELSE {"ok", "error"}
\* What producer.send(...).get(timeout=10) meets: a confirmation, a
\* KafkaError, no confirmation within the timeout (KafkaTimeoutError), or
\* any other exception.
BrokerConditions == {"ok", "kafka_error", "timeout", "error"}

NoRequest == [kind |-> "none", pc |-> "idle", db |-> "none", broker |-> "none",
              kafka_success |-> "unset", raised |-> FALSE,
              response |-> [success |-> FALSE, status_code |-> 0]]

AuthInit ==
    /\ kafka_producer = "unset"
    /\ requests = [r \in Slots |-> NoRequest]
    /\ activity_log = <<>>

\* RealKafkaProcessor.__init__ / _init_producer at import: a producer, or
\* None when KafkaProducer(...) raises.
InitProducer(connected) ==
    /\ kafka_producer = "unset"
    /\ kafka_producer' = IF connected THEN "ready" ELSE "none"
    /\ UNCHANGED <<requests, activity_log>>

\* helpers.success_response / error_response
SuccessResponse == [success |-> TRUE, status_code |-> 200]
ErrorResponse(code) == [success |-> FALSE, status_code |-> code]

\* The UserActivityLog row of a request that got through the database call.
ActivityRow(kind, db) ==
    CASE kind = "register" -> [activity_type |-> "register", status_code |-> 201]
      [] kind = "login" /\ db = "ok" -> [activity_type |-> "login", status_code |-> 200]
      [] OTHER -> [activity_type |-> "login_failed", status_code |-> 401]

\* register / login up to the call of real_kafka_processor.publish_event:
\* the database call and the activity row; an exception from the database
\* goes to the handler's `except Exception` and gives the 500 response.
HandleRequest(r, kind, db) ==
    /\ kafka_producer # "unset"
    /\ requests[r].pc = "idle"
    /\ IF db = "error"
       THEN /\ requests' = [requests EXCEPT ![r] =
                   [NoRequest EXCEPT !.kind = kind, !.db = db, !.pc = "done",
                                     !.response = ErrorResponse(500)]]
            /\ UNCHANGED activity_log
       ELSE /\ requests' = [requests EXCEPT ![r] =
                   [NoRequest EXCEPT !.kind = kind, !.db = db, !.pc = "publish"]]
            /\ activity_log' = Append(activity_log, ActivityRow(kind, db))
    /\ UNCHANGED kafka_producer

\* The handlers of RealKafkaProcessor.publish_event: `except KafkaError`
\* and `except Exception`.  (PublishCatchesNothing: no handler.)
PublishCatchesNothing(cond) == FALSE
PublishCatches(cond) ==
    \/ cond \in {"kafka_error", "timeout"}
    \/ ExceptException("Exception")

\* RealKafkaProcessor.publish_event: "true", "false" or "raise".
PublishEvent(producer, cond) ==
    IF producer # "ready" THEN "false"
    ELSE IF cond = "ok" THEN "true"
    ELSE IF PublishCatches(cond) THEN "false"
    ELSE "raise"

\* The call of publish_event in a handler.  Its result is only printed; an
\* exception out of it would go to the handler's `except Exception`.
KafkaPublish(r, cond) ==
    /\ requests[r].pc = "publish"
    /\ LET res == PublishEvent(kafka_producer, cond)
       IN  requests' = [requests EXCEPT ![r] =
               IF res = "raise"
               THEN [@ EXCEPT !.broker = cond, !.raised = TRUE, !.pc = "done",
                              !.response = ErrorResponse(500)]
               ELSE [@ EXCEPT !.broker = cond, !.kafka_success = res, !.pc = "respond"]]
    /\ UNCHANGED <<kafka_producer, activity_log>>

\* The return statement of the handler.
Respond(r) ==
    /\ requests[r].pc = "respond"
    /\ requests' = [requests EXCEPT ![r] =
           [@ EXCEPT !.pc = "done",
                     !.response = IF requests[r].db = "invalid" THEN ErrorResponse(401)
                                  ELSE SuccessResponse]]
    /\ UNCHANGED <<kafka_producer, activity_log>>

(***************************************************************************)
(* AnalyticsETL over the user_activity_logs table.                         *)
(***************************************************************************)
NoMetadata == [key |-> "none", value |-> "none"]

\* A UserActivityLog row, with the columns the queries read.  Times are in
\* hours.
LogRow(type, user, ip, endpoint, code, ts, metadata) ==
    [activity_type |-> type, user_id |-> user, ip_address |-> ip, endpoint |-> endpoint,
     status_code |-> code, timestamp |-> ts, event_metadata |-> metadata]

\* The row login() commits for a failed attempt: the attempted name goes
\* into event_metadata under the key "username".
FailedLoginRow(ip, username, ts) ==
    LogRow("login_failed", 0, ip, "/auth/login", 401, ts,
           [key |-> "username", value |-> username])

\* The row login() commits for a successful login.
LoginRow(user, ip, ts) ==
    LogRow("login", user, ip, "/auth/login", 200, ts, [key |-> "login_success", value |-> "true"])

\* The row the request middleware logs for an API call.
ApiCallRow(user, endpoint, code, ts) ==
    LogRow("api_call", user, "1.2.3.4", endpoint, code, ts,
           [key |-> "query_params", value |-> "none"])

\* No query of AnalyticsETL adds, changes or commits a row.
\* (StoreLogged: the query leaves a row of its own in the table.)
StoreLogged(rows, t) == Append(rows, ApiCallRow(1, "/a", 200, t))
StoreAfterQuery(rows, t) == rows

\* (value.items: the entries of a result that is a list.)
NoResult == [query |-> "none"]

EtlInit ==
    /\ log_table = <<>>
    /\ etl_now = 0
    /\ etl_result = NoResult
    /\ user_table = <<>>

\* The rows of a query: .filter(activity_type == ty, timestamp >= start).all()
RowsSince(rows, ty, start) ==
    SelectSeq(rows, LAMBDA r : r.activity_type = ty /\ r.timestamp >= start)

\* dict.get(key, 0) + 1 over the rows: the number of rows with the key.
CountBy(keys, k) == Cardinality({i \in 1..Len(keys) : keys[i] = k})
KeysBy(keys) == {keys[i] : i \in 1..Len(keys)}

\* attempt.ip_address or 'unknown'
IpKey(r) == IF r.ip_address = "" THEN "unknown" ELSE r.ip_address

\* json.loads(event_metadata).get('username_attempted', 'unknown')
UsernameKey(r) ==
    IF r.event_metadata.key = "username_attempted" THEN r.event_metadata.value ELSE "unknown"

\* `if count >= 5`, 'high' if count >= 10 else 'medium', `if count >= 3`.
\* (IpAlertAbove: `count > 5`.)
IpAlertAbove(count) == count > 5
IpAlertDue(count) == count >= 5
IpSeverity(count) == IF count >= 10 THEN "high" ELSE "medium"
UserAlertDue(count) == count >= 3

\* extract_security_alerts(hours), as the set of the alerts of its list.
ExtractSecurityAlerts(rows, t, hours) ==
    LET failed_logins == RowsSince(rows, "login_failed", t - hours)
        with_metadata == SelectSeq(failed_logins, LAMBDA r : r.event_metadata # NoMetadata)
        ips == [i \in 1..Len(failed_logins) |-> IpKey(failed_logins[i])]
        usernames == [i \in 1..Len(with_metadata) |-> UsernameKey(with_metadata[i])]
    IN  {[type |-> "multiple_failed_logins_ip", severity |-> IpSeverity(CountBy(ips, ip)),
          subject |-> ip, attempt_count |-> CountBy(ips, ip)] :
            ip \in {k \in KeysBy(ips) : IpAlertDue(CountBy(ips, k))}}
        \cup
        {[type |-> "multiple_failed_logins_user", severity |-> "medium",
          subject |-> u, attempt_count |-> CountBy(usernames, u)] :
            u \in {k \in KeysBy(usernames) :
                       UserAlertDue(CountBy(usernames, k))}}

\* GET /etl/security-alerts with the default window of 24 hours.
AlertHours == 24

SecurityAlertsQuery ==
    /\ etl_result' = [query |-> "security_alerts",
                      value |-> [items |-> ExtractSecurityAlerts(log_table, etl_now, AlertHours)]]
    /\ log_table' = StoreAfterQuery(log_table, etl_now)
    /\ UNCHANGED <<etl_now, user_table>>

\* A table of failed logins: n[ip, name] recent ones per address and
\* attempted name, some older than the window, and maybe a successful login.
IPs == {"1.2.3.4", "5.6.7.8"}
Usernames == {"alice", "bob"}

Rep(row, k) == [i \in 1..k |-> row]

FailedLoginTable(n, old, logins, t) ==
    Rep(FailedLoginRow("1.2.3.4", "alice", t - AlertHours - 1), old) \o
    Rep(FailedLoginRow("1.2.3.4", "alice", t), n["1.2.3.4", "alice"]) \o
    Rep(LoginRow(1, "1.2.3.4", t), logins) \o
    Rep(FailedLoginRow("5.6.7.8", "alice", t - AlertHours), n["5.6.7.8", "alice"]) \o
    Rep(FailedLoginRow("1.2.3.4", "bob", t), n["1.2.3.4", "bob"]) \o
    Rep(FailedLoginRow("5.6.7.8", "bob", t), n["5.6.7.8", "bob"])

InitAlerts ==
    /\ BusInit /\ SPInit /\ SchedInit /\ AuthInit
    /\ etl_now = 2 * AlertHours
    /\ etl_result = NoResult
    /\ user_table = <<>>
    /\ \E n \in [IPs \X Usernames -> 0..MaxAttempts], old \in 0..MaxAttempts, logins \in 0..1 :
           log_table = FailedLoginTable(n, old, logins, etl_now)

\* call.endpoint or 'unknown'
EndpointKey(r) == IF r.endpoint = "" THEN "unknown" ELSE r.endpoint

\* The keys of a dict filled in row order: each key where it first appears.
FirstSeen(keys) ==
    LET first == {i \in 1..Len(keys) : \A j \in 1..(i - 1) : keys[j] # keys[i]}
        at == CHOOSE f \in [1..Cardinality(first) -> first] :
                  \A a, b \in 1..Cardinality(first) : a < b => f[a] < f[b]
    IN  [p \in 1..Cardinality(first) |-> keys[at[p]]]

\* sorted(items, key=lambda x: x[1], reverse=True): by count, largest first;
\* the sort is stable, so items with equal counts stay in the order of the
\* dict.  items is a sequence of <<key, count>>.
SortedByCountDesc(items) ==
    LET n == Len(items)
        rank(i) == Cardinality({j \in 1..n : items[j][2] > items[i][2]})
                   + Cardinality({j \in 1..(i - 1) : items[j][2] = items[i][2]}) + 1
    IN  [p \in 1..n |-> items[CHOOSE i \in 1..n : rank(i) = p]]

\* round(a / b, 2) if b > 0 else 0, in hundredths.
RoundedRatio(a, b) == IF b > 0 THEN (2 * 100 * a + b) \div (2 * b) ELSE 0

\* extract_api_usage_stats(days): the counts and the top endpoints.
ExtractApiUsageStats(rows, t, days) ==
    LET api_calls == RowsSince(rows, "api_call", t - days * 24)
        endpoints == [i \in 1..Len(api_calls) |-> EndpointKey(api_calls[i])]
        keys == FirstSeen(endpoints)
        endpoint_stats == [p \in 1..Len(keys) |-> <<keys[p], CountBy(endpoints, keys[p])>>]
        sorted == SortedByCountDesc(endpoint_stats)
    IN  [total_api_calls |-> Len(api_calls),
         success_rate |-> RoundedRatio(100 * Cardinality({i \in 1..Len(api_calls) :
                               200 <= api_calls[i].status_code /\ api_calls[i].status_code < 300}),
                               Len(api_calls)),
         most_popular_endpoints |-> SubSeq(sorted, 1, Min(TopEndpoints, Len(sorted))),
         analysis_period_days |-> days]

\* extract_user_behavior_patterns(user_id): the message for a user with no
\* rows, else the counts over the user's last 100 rows.
ExtractUserBehaviorPatterns(rows, user_id) ==
    LET mine == SelectSeq(rows, LAMBDA r : r.user_id = user_id)
        activities == SubSeq(mine, Max(1, Len(mine) - BehaviorLimit + 1), Len(mine))
    IN  IF activities = <<>>
        THEN [user_id |-> user_id, message |-> "No activity data found"]
        ELSE [user_id |-> user_id, total_activities |-> Len(activities),
              activity_breakdown |->
                  {<<ty, Cardinality({i \in 1..Len(activities) : activities[i].activity_type = ty})>> :
                      ty \in {activities[i].activity_type : i \in 1..Len(activities)}}]

\* func.date(timestamp): the day of a time in hours.
DateOf(ts) == ts \div 24

\* func.date(timestamp) >= start_date and func.date(timestamp) <= end_date,
\* with end_date = utcnow().date() and start_date = end_date - days.
\* (InTimeRange: the timestamps compared, not their dates.)
InTimeRange(ts, t, days) == ts >= t - days * 24 /\ ts <= t
InDateRange(ts, t, days) == DateOf(ts) >= DateOf(t) - days /\ DateOf(ts) <= DateOf(t)

\* extract_daily_login_stats(days), as the set of the entries of its list
\* (the query names no order).  unique_users counts distinct user ids.
ExtractDailyLoginStats(rows, t, days) ==
    LET logins == SelectSeq(rows, LAMBDA r :
                      r.activity_type = "login" /\ InDateRange(r.timestamp, t, days))
        on(d) == {i \in 1..Len(logins) : DateOf(logins[i].timestamp) = d}
        users(d) == {logins[i].user_id : i \in on(d)}
    IN  {[date |-> d, total_logins |-> Cardinality(on(d)),
          unique_users |-> Cardinality(users(d)),
          avg_logins_per_user |-> RoundedRatio(Cardinality(on(d)), Cardinality(users(d)))] :
            d \in {DateOf(logins[i].timestamp) : i \in 1..Len(logins)}}

DailyLoginStatsQuery ==
    /\ etl_result' = [query |-> "daily_login_stats", at |-> etl_now,
                      value |-> [items |-> ExtractDailyLoginStats(log_table, etl_now, UsageDays)]]
    /\ log_table' = StoreAfterQuery(log_table, etl_now)
    /\ UNCHANGED <<etl_now, user_table>>

\* login() commits the row of a successful login: the last result is no
\* longer one of the table as it is.
LoginLogged(user) ==
    /\ Len(log_table) < MaxLogins
    /\ log_table' = Append(log_table, LoginRow(user, "1.2.3.4", etl_now))
    /\ etl_result' = NoResult
    /\ UNCHANGED <<etl_now, user_table>>

\* Time passes: an hour, or a day.
EtlTickSteps == {1, 24}

EtlTick(d) ==
    /\ etl_now < UsageDays * 24 + MaxEtlTicks
    /\ etl_now' = etl_now + d
    /\ UNCHANGED <<log_table, etl_result, user_table>>

ApiUsageQuery ==
    /\ etl_result' = [query |-> "api_usage",
                      value |-> ExtractApiUsageStats(log_table, etl_now, UsageDays)]
    /\ log_table' = StoreAfterQuery(log_table, etl_now)
    /\ UNCHANGED <<etl_now, user_table>>

UserBehaviorQuery(user_id) ==
    /\ etl_result' = [query |-> "user_behavior",
                      value |-> ExtractUserBehaviorPatterns(log_table, user_id)]
    /\ log_table' = StoreAfterQuery(log_table, etl_now)
    /\ UNCHANGED <<etl_now, user_table>>

\* Tables of API calls of user 1 on three endpoints, the names in
\* ascending order.
EndpointNames == <<"/a", "/b", "/c">>
Endpoints == {EndpointNames[i] : i \in 1..Len(EndpointNames)}
NameIndex(e) == CHOOSE i \in 1..Len(EndpointNames) : EndpointNames[i] = e
UserIds == {1, 2}

InitUsage ==
    /\ BusInit /\ SPInit /\ SchedInit /\ AuthInit
    /\ etl_now = 0
    /\ etl_result = NoResult
    /\ user_table = <<>>
    /\ \E k \in 0..MaxCalls : \E es \in [1..k -> Endpoints \X {200, 500}] :
           log_table = [i \in 1..k |-> ApiCallRow(1, es[i][1], es[i][2], etl_now)]

\* A table of logins made a week ago, at the start of the clock.
InitDaily ==
    /\ BusInit /\ SPInit /\ SchedInit /\ AuthInit
    /\ etl_now = UsageDays * 24
    /\ etl_result = NoResult
    /\ user_table = <<>>
    /\ \E k \in 0..MaxLogins : \E us \in [1..k -> UserIds] :
           log_table = [i \in 1..k |-> LoginRow(us[i], "1.2.3.4", 0)]

(***************************************************************************)
(* routers/advanced_analytics.py: user_segmentation and                    *)
(* predictive_insights over the users and user_activity_logs tables.       *)
(***************************************************************************)

\* Python's None in User.full_name.
NoFullName == "None"

\* A row of the users table (models/user_model.py), created_at in hours.
UserRow(id, created_at, full_name) ==
    [id |-> id, created_at |-> created_at, full_name |-> full_name]

\* The columns of the UserActivityLog model: reading any other attribute of
\* a row raises AttributeError.
ActivityColumns ==
    {"id", "user_id", "activity_type", "activity_description", "ip_address",
     "user_agent", "http_method", "endpoint", "status_code", "timestamp",
     "event_metadata"}

\* (datetime.now() - created_at).dt.days
AccountAgeDays(u, t) == (t - u.created_at) \div 24

\* The number of activity rows of a user (groupby('user_id'), then the left
\* merge and fillna(0)).
ActivityCount(rows, uid) ==
    Cardinality({i \in 1..Len(rows) : rows[i].user_id = uid})

\* user_segmentation: no users gives the message; the activities DataFrame
\* is built from a.user_id, a.activity_type and a.created_at, and a row
\* without one of them raises AttributeError, which the handler's except
\* turns into a failure result; with no activity every user is in the
\* ('No Activity', 'No Activity') segment.
UserSegmentation(users, rows) ==
    CASE users = <<>> ->
             [message |-> "No data for segmentation"]
      [] users # <<>> /\ rows # <<>> /\ "created_at" \notin ActivityColumns ->
             [success |-> FALSE, error |-> "AttributeError"]
      [] users # <<>> /\ rows = <<>> ->
             [success |-> TRUE,
              user_segments |-> {[activity_percentile |-> "No Activity",
                                  recency_score |-> "No Activity",
                                  count |-> Len(users)]},
              total_segments |-> 1]

UserSegmentationQuery ==
    /\ etl_result' = [query |-> "user_segmentation",
                      value |-> UserSegmentation(user_table, log_table)]
    /\ log_table' = StoreAfterQuery(log_table, etl_now)
    /\ UNCHANGED <<etl_now, user_table>>

\* The churn risk score in tenths: 0.3, 0.4 and 0.3 for an account older
\* than 30 days, no activity and no full name.  The float sums are the
\* decimal ones at every value met: 0.3 + 0.0 + 0.3 == 0.6 and
\* 0.3 + 0.4 + 0.3 == 1.0.
ChurnRiskScore(u, rows, t) ==
      (IF AccountAgeDays(u, t) > AgeThresholdDays THEN AgeWeight ELSE 0)
    + (IF ActivityCount(rows, u.id) = 0 THEN ActivityWeight ELSE 0)
    + (IF u.full_name \in {NoFullName, ""} THEN ProfileWeight ELSE 0)

\* pd.cut(score, bins=[0, 0.3, 0.6, 1.0], labels=...): the intervals are
\* open on the left and closed on the right, (0, 0.3], (0.3, 0.6] and
\* (0.6, 1.0]; a score in none of them gets NaN.
RiskBins == <<0, 3, 6, 10>>
RiskLabels == <<"Low Risk", "Medium Risk", "High Risk">>

Cut(x, bins, labels) ==
    IF \E j \in 1..Len(labels) : bins[j] < x /\ x <= bins[j + 1]
    THEN labels[CHOOSE j \in 1..Len(labels) : bins[j] < x /\ x <= bins[j + 1]]
    ELSE "NaN"

\* predictive_insights: fewer than 5 users gives the message; else the
\* counts of the risk categories (value_counts leaves NaN out) and the
\* number of users with a score above 0.6.
PredictiveInsights(users, rows, t) ==
    IF Len(users) < MinUsers
    THEN [message |-> "Need more data for predictions"]
    ELSE LET score(i) == ChurnRiskScore(users[i], rows, t)
             category(i) == Cut(score(i), RiskBins, RiskLabels)
         IN  [success |-> TRUE,
              churn_analysis |->
                  [l \in {RiskLabels[j] : j \in 1..Len(RiskLabels)} |->
                      Cardinality({i \in 1..Len(users) : category(i) = l})],
              high_risk_users |->
                  Cardinality({i \in 1..Len(users) : score(i) > RiskBins[3]})]

PredictiveInsightsQuery ==
    /\ etl_result' = [query |-> "predictive_insights",
                      value |-> PredictiveInsights(user_table, log_table, etl_now)]
    /\ log_table' = StoreAfterQuery(log_table, etl_now)
    /\ UNCHANGED <<etl_now, user_table>>

\* The login rows of the users drawn with a login, in id order.
RECURSIVE LoginRowsOf(_, _, _)
LoginRowsOf(f, n, t) ==
    IF n = 0 THEN <<>>
    ELSE LET rest == LoginRowsOf(f, n - 1, t)
         IN  IF f[n][3] THEN Append(rest, LoginRow(n, "1.2.3.4", t)) ELSE rest

\* Users registered 31 and 30 days ago, with and without a full name, with
\* and without a login today.
FullNames == {"Ann Lee", NoFullName}
UserFeatures == {0, 24} \X FullNames \X BOOLEAN

InitAdvanced ==
    /\ BusInit /\ SPInit /\ SchedInit /\ AuthInit
    /\ etl_now = (AgeThresholdDays + 1) * 24
    /\ etl_result = NoResult
    /\ \E n \in 0..MaxUsers : \E f \in [1..n -> UserFeatures] :
           /\ \A i \in 1..(n - 1) : f[i][1] <= f[i + 1][1]
           /\ user_table = [i \in 1..n |-> UserRow(i, f[i][1], f[i][2])]
           /\ log_table = LoginRowsOf(f, n, etl_now)

NextAdvanced ==
    \/ UserSegmentationQuery /\ UNCHANGED <<busVars, spVars, schVars, authVars>>
    \/ PredictiveInsightsQuery /\ UNCHANGED <<busVars, spVars, schVars, authVars>>

SpecAdvanced == InitAdvanced /\ [][NextAdvanced]_vars

Init == BusInit /\ SPInit /\ SchedInit /\ AuthInit /\ EtlInit

Next ==
    \/ \E k \in ConsumerKinds : RegisterConsumer(k) /\ UNCHANGED <<spVars, schVars, authVars, etlVars>>
    \/ \E p \in Publishers : CallPublish(p, EventTypeOf(p), MaxPublish) /\ UNCHANGED <<spVars, schVars, authVars, etlVars>>
    \/ \E c \in 1..Len(calls) : NotifyStep(c) /\ UNCHANGED <<spVars, schVars, authVars, etlVars>>
    \/ \E c \in 1..Len(calls) : ConsumerCompletes(c) /\ UNCHANGED <<spVars, schVars, authVars, etlVars>>

Spec == Init /\ [][Next]_vars

\* A consumer that writes to the event it is awaited with:
\* event_data["event_type"] = "seen".  publish_event appends event_data to
\* event_queue and hands the same dict to _notify_consumers, and the loop
\* hands it to each consumer: the object written to is the queue entry.
SeenByConsumer(entry) == [entry EXCEPT !.event_type = "seen"]

\* The position in event_queue of the dict of publish_event call c.
EntryOf(c) == CHOOSE i \in 1..Len(event_queue) : event_queue[i].id = c

\* One turn of the consumer loop on a consumer that writes to its argument.
NotifyWritingConsumer(c) ==
    /\ running = c
    /\ calls[c].pc = "notify"
    /\ calls[c].idx <= Len(consumers)
    /\ consumers[calls[c].idx] = "write"
    /\ delivered' = [delivered EXCEPT ![calls[c].idx] = Append(@, c)]
    /\ event_queue' = [event_queue EXCEPT ![EntryOf(c)] = SeenByConsumer(@)]
    /\ calls' = [calls EXCEPT ![c].idx = @ + 1]
    /\ UNCHANGED <<consumers, running, reg_at, published, recent>>

\* One turn of the consumer loop on a consumer that only reads, or past
\* the last consumer.
NotifyReadingConsumer(c) ==
    /\ calls[c].idx <= Len(consumers) => consumers[calls[c].idx] # "write"
    /\ NotifyStep(c)

\* A bus with consumers that read and consumers that write.
NextShared ==
    \/ \E k \in {"ok", "write"} : RegisterConsumer(k) /\ UNCHANGED <<spVars, schVars, authVars, etlVars>>
    \/ \E p \in Publishers : CallPublish(p, EventTypeOf(p), MaxPublish) /\ UNCHANGED <<spVars, schVars, authVars, etlVars>>
    \/ \E c \in 1..Len(calls) : NotifyReadingConsumer(c) /\ UNCHANGED <<spVars, schVars, authVars, etlVars>>
    \/ \E c \in 1..Len(calls) : NotifyWritingConsumer(c) /\ UNCHANGED <<spVars, schVars, authVars, etlVars>>
    \/ \E l \in 0..MaxLimit : GetRecentEvents(l) /\ UNCHANGED <<spVars, schVars, authVars, etlVars>>

SpecShared == Init /\ [][NextShared]_vars

\* The module-level bus serving GET /events/recent while requests publish.
InitRecent == BusInitGlobal /\ SPInit /\ SchedInit /\ AuthInit /\ EtlInit

NextRecent ==
    \/ \E p \in Publishers : CallPublish(p, EventTypeOf(p), MaxPublish) /\ UNCHANGED <<spVars, schVars, authVars, etlVars>>
    \/ \E c \in 1..Len(calls) : NotifyStep(c) /\ UNCHANGED <<spVars, schVars, authVars, etlVars>>
    \/ \E l \in 0..MaxLimit : GetRecentEvents(l) /\ UNCHANGED <<spVars, schVars, authVars, etlVars>>

SpecRecent == InitRecent /\ [][NextRecent]_vars

\* The module-level bus under a long run of API-call publishes from the
\* request middleware.
NextBurst ==
    \/ CallPublish("p1", EventTypeOf("p1"), HistoryLimit + BurstExtra) /\ UNCHANGED <<spVars, schVars, authVars, etlVars>>
    \/ \E c \in 1..Len(calls) : NotifyStep(c) /\ UNCHANGED <<spVars, schVars, authVars, etlVars>>

SpecBurst == InitRecent /\ [][NextBurst]_vars

\* The stream processor with its publishers, its Start/Stop callers and its
\* worker threads.
NextSP ==
    \/ \E ty \in SpEventTypes : SpPublish(ty, DefaultData(ty), MaxSpPublish) /\ UNCHANGED <<busVars, schVars, authVars, etlVars>>
    \/ StartStreaming /\ UNCHANGED <<busVars, schVars, authVars, etlVars>>
    \/ StopStreaming /\ UNCHANGED <<busVars, schVars, authVars, etlVars>>
    \/ \E w \in Workers : WorkerCheck(w) /\ UNCHANGED <<busVars, schVars, authVars, etlVars>>
    \/ \E w \in Workers : WorkerGet(w) /\ UNCHANGED <<busVars, schVars, authVars, etlVars>>
    \/ \E w \in Workers : WorkerProcess(w) /\ UNCHANGED <<busVars, schVars, authVars, etlVars>>
    \/ \E w \in Workers : WorkerTrim(w) /\ UNCHANGED <<busVars, schVars, authVars, etlVars>>

SpecSP == Init /\ [][NextSP]_vars

\* Every live worker thread keeps being scheduled, and its queue read
\* returns within its one-second timeout.
SpecSPFair == SpecSP /\ \A w \in Workers : WF_vars(WorkerStep(w) /\ UNCHANGED <<busVars, schVars, authVars, etlVars>>)

\* start_streaming called only while no worker thread is alive: at most one
\* worker at any time.
StartSingle ==
    /\ LiveWorkers = {}
    /\ StartStreaming

\* The stream processor with a single worker and well-formed payloads.
NextSingle ==
    \/ \E ty \in SpEventTypes : SpPublish(ty, DefaultData(ty), MaxSpPublish) /\ UNCHANGED <<busVars, schVars, authVars, etlVars>>
    \/ StartSingle /\ UNCHANGED <<busVars, schVars, authVars, etlVars>>
    \/ StopStreaming /\ UNCHANGED <<busVars, schVars, authVars, etlVars>>
    \/ \E w \in Workers : WorkerCheck(w) /\ UNCHANGED <<busVars, schVars, authVars, etlVars>>
    \/ \E w \in Workers : WorkerGet(w) /\ UNCHANGED <<busVars, schVars, authVars, etlVars>>
    \/ \E w \in Workers : WorkerProcess(w) /\ UNCHANGED <<busVars, schVars, authVars, etlVars>>
    \/ \E w \in Workers : WorkerTrim(w) /\ UNCHANGED <<busVars, schVars, authVars, etlVars>>

\* The worker thread keeps being scheduled, and its queue read returns
\* within its one-second timeout.
SpecSingle ==
    /\ Init /\ [][NextSingle]_vars
    /\ \A w \in Workers : WF_vars(WorkerStep(w) /\ UNCHANGED <<busVars, schVars, authVars, etlVars>>)

\* The stream processor fed with well-formed and malformed payloads.
NextClassify ==
    \/ \E in \in SpInputs : SpPublish(in[1], in[2], MaxSpPublish) /\ UNCHANGED <<busVars, schVars, authVars, etlVars>>
    \/ StartStreaming /\ UNCHANGED <<busVars, schVars, authVars, etlVars>>
    \/ StopStreaming /\ UNCHANGED <<busVars, schVars, authVars, etlVars>>
    \/ \E w \in Workers : WorkerCheck(w) /\ UNCHANGED <<busVars, schVars, authVars, etlVars>>
    \/ \E w \in Workers : WorkerGet(w) /\ UNCHANGED <<busVars, schVars, authVars, etlVars>>
    \/ \E w \in Workers : WorkerProcess(w) /\ UNCHANGED <<busVars, schVars, authVars, etlVars>>
    \/ \E w \in Workers : WorkerTrim(w) /\ UNCHANGED <<busVars, schVars, authVars, etlVars>>

SpecClassify == Init /\ [][NextClassify]_vars

\* The stream processor with the clock and the statistics route
\* (GET /kafka/status), fed by the test-event route.
NextStats ==
    \/ SpPublish("test_event", DefaultData("test_event"), MaxWinPublish) /\ UNCHANGED <<busVars, schVars, authVars, etlVars>>
    \/ StartStreaming /\ UNCHANGED <<busVars, schVars, authVars, etlVars>>
    \/ StopStreaming /\ UNCHANGED <<busVars, schVars, authVars, etlVars>>
    \/ \E w \in Workers : WorkerCheck(w) /\ UNCHANGED <<busVars, schVars, authVars, etlVars>>
    \/ \E w \in Workers : WorkerGet(w) /\ UNCHANGED <<busVars, schVars, authVars, etlVars>>
    \/ \E w \in Workers : WorkerProcess(w) /\ UNCHANGED <<busVars, schVars, authVars, etlVars>>
    \/ \E w \in Workers : WorkerTrim(w) /\ UNCHANGED <<busVars, schVars, authVars, etlVars>>
    \/ \E d \in TickSteps : Tick(d) /\ UNCHANGED <<busVars, schVars, authVars, etlVars>>
    \/ GetRealTimeStats /\ UNCHANGED <<busVars, schVars, authVars, etlVars>>

SpecStats == Init /\ [][NextStats]_vars

\* The same with the clock standing still: what two statistics calls made
\* within one second of each other can see.
NextFresh ==
    \/ SpPublish("test_event", DefaultData("test_event"), MaxWinPublish) /\ UNCHANGED <<busVars, schVars, authVars, etlVars>>
    \/ StartStreaming /\ UNCHANGED <<busVars, schVars, authVars, etlVars>>
    \/ StopStreaming /\ UNCHANGED <<busVars, schVars, authVars, etlVars>>
    \/ \E w \in Workers : WorkerCheck(w) /\ UNCHANGED <<busVars, schVars, authVars, etlVars>>
    \/ \E w \in Workers : WorkerGet(w) /\ UNCHANGED <<busVars, schVars, authVars, etlVars>>
    \/ \E w \in Workers : WorkerProcess(w) /\ UNCHANGED <<busVars, schVars, authVars, etlVars>>
    \/ \E w \in Workers : WorkerTrim(w) /\ UNCHANGED <<busVars, schVars, authVars, etlVars>>
    \/ GetRealTimeStats /\ UNCHANGED <<busVars, schVars, authVars, etlVars>>

SpecFresh == Init /\ [][NextFresh]_vars

\* The stream processor after KeepLast test events have been published and
\* processed by its one worker thread: the retained list is full.
TestEvent(n) ==
    [id |-> n, event_type |-> "test_event", data |-> DefaultData("test_event"), timestamp |-> 0]

InitFull ==
    /\ BusInit
    /\ sp_queue = <<>>
    /\ processed_events = [n \in 1..KeepLast |->
           [id |-> n, original_timestamp |-> 0, processed_timestamp |-> 0,
            event_type |-> "test_event", processed_data |-> ProcessedData(TestEvent(n), 0)]]
    /\ is_running = TRUE
    /\ w_pc = [w \in Workers |-> IF w = 1 THEN "check" ELSE "dead"]
    /\ w_event = [w \in Workers |-> NoEvent]
    /\ sp_published = KeepLast
    /\ checks_after_stop = [w \in Workers |-> 0]
    /\ sp_sent = [n \in 1..KeepLast |-> TestEvent(n)]
    /\ sp_errors = {}
    /\ now = 0
    /\ stats = NoStats
    /\ ticks = 0
    /\ SchedInit
    /\ AuthInit
    /\ EtlInit

NextFull ==
    \/ SpPublish("test_event", DefaultData("test_event"), KeepLast + BurstExtra) /\ UNCHANGED <<busVars, schVars, authVars, etlVars>>
    \/ \E w \in Workers : WorkerCheck(w) /\ UNCHANGED <<busVars, schVars, authVars, etlVars>>
    \/ \E w \in Workers : WorkerGet(w) /\ UNCHANGED <<busVars, schVars, authVars, etlVars>>
    \/ \E w \in Workers : WorkerProcess(w) /\ UNCHANGED <<busVars, schVars, authVars, etlVars>>
    \/ \E w \in Workers : WorkerTrim(w) /\ UNCHANGED <<busVars, schVars, authVars, etlVars>>
    \/ GetRealTimeStats /\ UNCHANGED <<busVars, schVars, authVars, etlVars>>

SpecFull == InitFull /\ [][NextFull]_vars

\* The same five minutes later: the retained events have left the window.
InitRetained ==
    /\ BusInit
    /\ sp_queue = <<>>
    /\ processed_events = [n \in 1..KeepLast |->
           [id |-> n, original_timestamp |-> 0, processed_timestamp |-> 0,
            event_type |-> "test_event", processed_data |-> ProcessedData(TestEvent(n), 0)]]
    /\ is_running = TRUE
    /\ w_pc = [w \in Workers |-> IF w = 1 THEN "check" ELSE "dead"]
    /\ w_event = [w \in Workers |-> NoEvent]
    /\ sp_published = KeepLast
    /\ checks_after_stop = [w \in Workers |-> 0]
    /\ sp_sent = [n \in 1..KeepLast |-> TestEvent(n)]
    /\ sp_errors = {}
    /\ now = WindowSeconds
    /\ stats = NoStats
    /\ ticks = 0
    /\ SchedInit
    /\ AuthInit
    /\ EtlInit

SpecRetained == InitRetained /\ [][NextFull]_vars

NextSched ==
    \/ RunScheduler /\ UNCHANGED <<busVars, spVars, authVars, etlVars>>
    \/ \E j \in Jobs : Fire(j) /\ UNCHANGED <<busVars, spVars, authVars, etlVars>>
    \/ RequestStop /\ UNCHANGED <<busVars, spVars, authVars, etlVars>>
    \/ SchedLoop /\ UNCHANGED <<busVars, spVars, authVars, etlVars>>
    \/ JobStart /\ UNCHANGED <<busVars, spVars, authVars, etlVars>>
    \/ \E j \in Jobs, outcome \in JobOutcomes : JobEnd(j, outcome) /\ UNCHANGED <<busVars, spVars, authVars, etlVars>>
    \/ SchedWake /\ UNCHANGED <<busVars, spVars, authVars, etlVars>>

SpecSched == Init /\ [][NextSched]_vars

NextAuth ==
    \/ \E connected \in BOOLEAN : InitProducer(connected) /\ UNCHANGED <<busVars, spVars, schVars, etlVars>>
    \/ \E r \in Slots, kind \in RequestKinds : \E db \in DbOutcomes(kind) :
           HandleRequest(r, kind, db) /\ UNCHANGED <<busVars, spVars, schVars, etlVars>>
    \/ \E r \in Slots, cond \in BrokerConditions :
           KafkaPublish(r, cond) /\ UNCHANGED <<busVars, spVars, schVars, etlVars>>
    \/ \E r \in Slots : Respond(r) /\ UNCHANGED <<busVars, spVars, schVars, etlVars>>

SpecAuth == Init /\ [][NextAuth]_vars

\* The security alerts query over tables of failed logins.
NextAlerts ==
    SecurityAlertsQuery /\ UNCHANGED <<busVars, spVars, schVars, authVars>>

SpecAlerts == InitAlerts /\ [][NextAlerts]_vars

\* The API usage, user behaviour and security alert queries over tables of
\* API calls.
NextUsage ==
    \/ ApiUsageQuery /\ UNCHANGED <<busVars, spVars, schVars, authVars>>
    \/ \E u \in UserIds : UserBehaviorQuery(u) /\ UNCHANGED <<busVars, spVars, schVars, authVars>>
    \/ SecurityAlertsQuery /\ UNCHANGED <<busVars, spVars, schVars, authVars>>

SpecUsage == InitUsage /\ [][NextUsage]_vars

\* The four queries, the login handler and the clock.
NextDaily ==
    \/ DailyLoginStatsQuery /\ UNCHANGED <<busVars, spVars, schVars, authVars>>
    \/ SecurityAlertsQuery /\ UNCHANGED <<busVars, spVars, schVars, authVars>>
    \/ ApiUsageQuery /\ UNCHANGED <<busVars, spVars, schVars, authVars>>
    \/ \E u \in UserIds : UserBehaviorQuery(u) /\ UNCHANGED <<busVars, spVars, schVars, authVars>>
    \/ \E u \in UserIds : LoginLogged(u) /\ UNCHANGED <<busVars, spVars, schVars, authVars>>
    \/ \E d \in EtlTickSteps : EtlTick(d) /\ UNCHANGED <<busVars, spVars, schVars, authVars>>

SpecDaily == InitDaily /\ [][NextDaily]_vars

(***************************************************************************)
(* Properties                                                              *)
(***************************************************************************)
Range(seq) == {seq[i] : i \in 1..Len(seq)}
HistoryIds == {event_queue[i].id : i \in 1..Len(event_queue)}
Occurrences(seq, x) == Cardinality({i \in 1..Len(seq) : seq[i] = x})
CallIds == 1..Len(calls)
ConsumerIds == 1..Len(consumers)
Quiescent == \A c \in CallIds : calls[c].pc = "returned"

\* C1: after any sequence of publishes the bus history holds at most
\* N = 1000 events (the oldest beyond N are evicted).
C1_BoundedHistory == Len(event_queue) <= HistoryLimit

\* C2: delivery isolation.  Every publish that has returned invoked every
\* consumer registered before it exactly once, wherever a raising consumer
\* stands in the list; and once all publishes have returned, a consumer
\* registered before the first publish has received as many events as were
\* published.
C2_DeliveryIsolation ==
    /\ \A c \in CallIds : calls[c].pc = "returned" =>
          \A k \in ConsumerIds : reg_at[k] < c => Occurrences(delivered[k], c) = 1
    /\ Quiescent =>
          \A k \in ConsumerIds : reg_at[k] = 0 => Len(delivered[k]) = published

C2_Witness ==
    /\ Quiescent
    /\ published >= 2
    /\ \E k1, k2 \in ConsumerIds :
          /\ k1 < k2
          /\ consumers[k1] = "raise" /\ consumers[k2] = "ok"
          /\ reg_at[k1] = 0 /\ reg_at[k2] = 0
          /\ Len(delivered[k1]) = published
          /\ Len(delivered[k2]) = published

\* C3: publish_event never raises to its caller.  A call during which a
\* consumer raised has not propagated the exception, and its event is in
\* the history.
ConsumerRaisedIn(c) ==
    \E k \in ConsumerIds : consumers[k] = "raise" /\ c \in Range(delivered[k])

C3_PublishNeverRaises ==
    \A c \in CallIds : ConsumerRaisedIn(c) =>
        /\ calls[c].pc # "raised"
        /\ c \in HistoryIds

C3_Witness ==
    \E c \in CallIds : ConsumerRaisedIn(c) /\ calls[c].pc = "returned"

\* C4: history order equals publish order.  The history only grows at its
\* end, and the events it holds stand in the order their appends were made,
\* also when publish calls interleave at their awaits.
C4_HistoryOrder ==
    /\ [](\A i, j \in 1..Len(event_queue) :
              i < j => event_queue[i].id < event_queue[j].id)
    /\ [][/\ Len(event_queue') >= Len(event_queue)
          /\ SubSeq(event_queue', 1, Len(event_queue)) = event_queue]_vars

C4_Witness ==
    /\ Len(event_queue) >= 3
    /\ \E c1, c2 \in CallIds :
          /\ c1 < c2
          /\ calls[c1].owner # calls[c2].owner
          /\ calls[c1].pc = "awaiting"
          /\ calls[c2].pc = "returned"

\* C5: publish is not blocked on a slow consumer.  While a consumer's
\* callback has not finished, the publisher that dispatched the event is not
\* held back by it.
C5_PublishNotBlocked ==
    \A c \in CallIds :
        calls[c].pc \in {"awaiting", "blocked"} => ~PublisherBlocked(calls[c].owner)

\* C6: append-then-dispatch.  Every event a consumer has been invoked with
\* is in the bus history.
C6_AppendThenDispatch ==
    \A k \in ConsumerIds : Range(delivered[k]) \subseteq HistoryIds

C6_Witness ==
    \E k \in ConsumerIds, c \in CallIds :
        /\ c \in Range(delivered[k])
        /\ calls[c].pc \in {"notify", "awaiting"}
        /\ calls[c].idx = k

C8_RecentEvents ==
    recent.limit >= 0 =>
        LET n == Len(recent.read)
            m == Min(recent.limit, n)
        IN  /\ Len(recent.result) <= recent.limit
            /\ recent.result = SubSeq(recent.read, n - m + 1, n)

\* C9: after any sequence of Start/Stop calls at most one consumption loop
\* is draining the queue.
C9_SingleLoop == Cardinality(LiveWorkers) <= 1

\* C10: once Stop has been called and no Start follows, every worker makes
\* at most one more loop test, the one that ends its loop, and no worker is
\* left running.
C10_StopTerminates ==
    /\ [](\A w \in Workers : checks_after_stop[w] <= 1)
    /\ (~is_running) ~> (is_running \/ LiveWorkers = {})

C10_Witness ==
    /\ ~is_running
    /\ LiveWorkers = {}
    /\ processed_events # <<>>
    /\ sp_queue # <<>>
    /\ \E w \in Workers : checks_after_stop[w] = 1

ProcessedIds == {processed_events[i].id : i \in 1..Len(processed_events)}
QueuedIds == {sp_queue[i].id : i \in 1..Len(sp_queue)}
HeldIds == {w_event[w].id : w \in Workers}

\* C11: a processing failure never stops the loop or drops a later event.
\* A worker thread ends only at its loop test with the flag cleared, and
\* every published event whose own processing does not raise is waiting in
\* the queue, held by a worker or retained in processed_events.
C11_FailureIsolated ==
    /\ [](\A n \in 1..sp_published :
              ~ProcessRaises(sp_sent[n]) =>
                  n \in QueuedIds \cup HeldIds \cup ProcessedIds)
    /\ [][\A w \in Workers :
              (Alive(w) /\ ~Alive(w)') => (w_pc[w] = "check" /\ ~is_running)]_vars

C11_Witness ==
    \E n1 \in sp_errors, n2 \in ProcessedIds :
        /\ n1 < n2
        /\ is_running
        /\ \E w \in Workers : w_pc[w] = "get"

\* C20 (as claimed): a registration event yields the email domain and the
\* has-full-name flag, a login event the user and a timestamp, and an event
\* of any other type is passed through unmodified and tagged as
\* uncategorized.
IsDomainOf(dom, email) ==
    /\ \A i \in 1..Len(dom) : dom[i] # "@"
    /\ \/ email = dom
       \/ \E pre \in {SubSeq(email, 1, k) : k \in 0..Len(email)} :
              email = pre \o <<"@">> \o dom

RegistrationOf(pe, ev) ==
    /\ IsDomainOf(pe.processed_data.email_domain, ev.data.email)
    /\ pe.processed_data.has_full_name = (ev.data.full_name # "")
    /\ pe.event_type = ev.event_type

LoginOf(pe, ev) ==
    /\ pe.processed_data.user_id = ev.data.id
    /\ pe.processed_data.username = ev.data.username
    /\ pe.processed_data.login_time = pe.processed_timestamp
    /\ pe.event_type = ev.event_type

C20_ClassifyTagged ==
    \A i \in 1..Len(processed_events) :
        LET pe == processed_events[i]
            ev == sp_sent[pe.id]
        IN  CASE ev.event_type = "user_registration" -> RegistrationOf(pe, ev)
              [] ev.event_type = "user_login" -> LoginOf(pe, ev)
              [] OTHER -> /\ pe.processed_data = ev.data
                          /\ pe.event_type = "uncategorized"

\* C20 (amended): as above, but an event of any other type is passed
\* through unmodified under its own event type; nothing is tagged as
\* uncategorized.
C20_Classify ==
    \A i \in 1..Len(processed_events) :
        LET pe == processed_events[i]
            ev == sp_sent[pe.id]
        IN  CASE ev.event_type = "user_registration" -> RegistrationOf(pe, ev)
              [] ev.event_type = "user_login" -> LoginOf(pe, ev)
              [] OTHER -> /\ pe.processed_data = ev.data
                          /\ pe.event_type = ev.event_type
                          /\ pe.event_type # "uncategorized"

C20_Witness ==
    \E i, k \in 1..Len(processed_events) :
        /\ processed_events[i].event_type = "user_registration"
        /\ processed_events[i].processed_data.email_domain = <<"z">>
        /\ processed_events[k].event_type = "test_event"
        /\ processed_events[k].processed_data = DataNone

\* The events a statistics call at time t should count on the list it read:
\* those processed less than five minutes before t.
InLastFiveMinutes(processed, t) ==
    {i \in 1..Len(processed) : ElapsedSeconds(t - processed[i].processed_timestamp) < WindowSeconds}

\* One more processed event on the list read, and nothing else changed.
OneMoreProcessed(s) ==
    /\ Len(s.read) = Len(s.before.read) + 1
    /\ SubSeq(s.read, 1, Len(s.before.read)) = s.before.read

C13_WindowMonotone ==
    (stats.before.taken /\ stats.pub = stats.before.pub /\ stats.read = stats.before.read)
        => stats.events_last_5_minutes <= stats.before.events_last_5_minutes

\* C14: a get_real_time_stats call counts only events of the list it read
\* (at most KeepLast long) that were processed less than five minutes before it.
C14_CountedOnlyRecent ==
    stats.taken =>
        /\ Len(stats.read) <= KeepLast
        /\ stats.events_last_5_minutes <= Cardinality(InLastFiveMinutes(stats.read, stats.at))

\* C15: no get_real_time_stats call sees the retained list holding more than
\* KeepLast entries: the append and the trim of a worker look like one step.
C15_AtomicAppendEvict ==
    stats.taken => stats.total_events_processed <= KeepLast

SchedAlive == sch_pc \in {"loop", "run", "in_job", "sleep"}

\* C16: a job that raises leaves the scheduler alive (back to idle, every
\* schedule still served at its next time).
C16_JobFailureSurvived ==
    sch_raised # {} => SchedAlive

C18_StopCooperative ==
    (stop_requested /\ loops_after_stop > 0) => sch_pc = "halted"

\* C19: a publish that meets no producer, a broker error or a timeout gives
\* the return value False and raises nothing into the handler, and two
\* requests of the same kind with the same database outcome get the same
\* response whatever their publish returned.
C19_PublishFailureNotFatal ==
    /\ \A r \in Slots :
           /\ ~requests[r].raised
           /\ (requests[r].pc \in {"respond", "done"} /\ requests[r].broker # "none"
                 /\ (kafka_producer = "none" \/ requests[r].broker # "ok"))
                => requests[r].kafka_success = "false"
    /\ \A r1, r2 \in Slots :
           (/\ requests[r1].pc = "done" /\ requests[r2].pc = "done"
            /\ requests[r1].kind = requests[r2].kind
            /\ requests[r1].db = requests[r2].db)
               => requests[r1].response = requests[r2].response

C19_Witness ==
    \E r1, r2 \in Slots :
        /\ requests[r1].pc = "done" /\ requests[r2].pc = "done"
        /\ requests[r1].kind = "login" /\ requests[r2].kind = "login"
        /\ requests[r1].db = "ok" /\ requests[r2].db = "ok"
        /\ requests[r1].kafka_success = "true"
        /\ requests[r2].kafka_success = "false" /\ requests[r2].broker = "timeout"
        /\ requests[r1].response = SuccessResponse
        /\ requests[r2].response = SuccessResponse

\* The failed logins of the table within the window of the alerts query.
FailedInWindow ==
    {i \in 1..Len(log_table) :
        /\ log_table[i].activity_type = "login_failed"
        /\ etl_now - log_table[i].timestamp <= AlertHours}
FailedFrom(ip) == Cardinality({i \in FailedInWindow : log_table[i].ip_address = ip})
FailedOn(u) == Cardinality({i \in FailedInWindow : log_table[i].event_metadata.value = u})
AlertsOfType(ty) == {a \in etl_result.value.items : a.type = ty}

\* C21: there is a per-IP alert for an address exactly when it has at least 5
\* failed logins in the window, high from 10 on and medium below; with 5 from
\* 1.2.3.4 and 4 from 5.6.7.8 the only per-IP alert is a medium one for 1.2.3.4.
C21_IpAlerts ==
    etl_result.query = "security_alerts" =>
        /\ \A ip \in IPs :
               (\E a \in AlertsOfType("multiple_failed_logins_ip") : a.subject = ip)
                   <=> FailedFrom(ip) >= 5
        /\ \A a \in AlertsOfType("multiple_failed_logins_ip") :
               /\ a.subject \in IPs
               /\ a.attempt_count = FailedFrom(a.subject)
               /\ a.severity = IF FailedFrom(a.subject) >= 10 THEN "high" ELSE "medium"
        /\ (FailedFrom("1.2.3.4") = 5 /\ FailedFrom("5.6.7.8") = 4)
               => AlertsOfType("multiple_failed_logins_ip") =
                      {[type |-> "multiple_failed_logins_ip", severity |-> "medium",
                        subject |-> "1.2.3.4", attempt_count |-> 5]}

C21_Witness ==
    /\ etl_result.query = "security_alerts"
    /\ FailedFrom("1.2.3.4") = 5 /\ FailedFrom("5.6.7.8") = 4
    /\ Cardinality(AlertsOfType("multiple_failed_logins_ip")) = 1
    /\ \E i \in 1..Len(log_table) :
           /\ log_table[i].activity_type = "login_failed" /\ i \notin FailedInWindow
           /\ log_table[i].ip_address = "1.2.3.4"
    /\ \E i \in 1..Len(log_table) :
           log_table[i].activity_type = "login" /\ log_table[i].ip_address = "1.2.3.4"

\* C22: there is a per-username alert naming a username exactly when that
\* username has at least 3 failed attempts in the window, counted apart
\* from the attempts on every other username.
C22_UsernameAlerts ==
    etl_result.query = "security_alerts" =>
        /\ \A u \in Usernames :
               (\E a \in AlertsOfType("multiple_failed_logins_user") : a.subject = u)
                   <=> FailedOn(u) >= 3
        /\ \A a \in AlertsOfType("multiple_failed_logins_user") :
               a.subject \in Usernames /\ a.attempt_count = FailedOn(a.subject)

\* The number of API calls of the table on an endpoint.
CallsOn(e) == Cardinality({i \in 1..Len(log_table) :
                  log_table[i].activity_type = "api_call" /\ log_table[i].endpoint = e})

\* <<e1, c1>> comes before <<e2, c2>>: more calls, or as many and the
\* smaller name.
Before(x, y) == x[2] > y[2] \/ (x[2] = y[2] /\ NameIndex(x[1]) < NameIndex(y[1]))

\* C25: most_popular_endpoints holds at most 10 endpoints with their counts,
\* the first ones in the order by count descending and name ascending.
C25_TopEndpoints ==
    etl_result.query = "api_usage" =>
        LET top == etl_result.value.most_popular_endpoints
        IN  /\ Len(top) <= TopEndpoints
            /\ \A p \in 1..Len(top) : top[p][1] \in Endpoints /\ top[p][2] = CallsOn(top[p][1])
            /\ \A p, q \in 1..Len(top) : p < q => Before(top[p], top[q])
            /\ \A e \in Endpoints :
                   (CallsOn(e) > 0 /\ \A p \in 1..Len(top) : top[p][1] # e)
                       => /\ Len(top) = TopEndpoints
                          /\ \A p \in 1..Len(top) : Before(top[p], <<e, CallsOn(e)>>)

\* The rows a query works on, for the table as it is.
QueryInput ==
    CASE etl_result.query = "api_usage" ->
             {i \in 1..Len(log_table) : log_table[i].activity_type = "api_call"}
      [] etl_result.query = "user_behavior" ->
             {i \in 1..Len(log_table) : log_table[i].user_id = etl_result.value.user_id}
      [] etl_result.query = "security_alerts" ->
             {i \in 1..Len(log_table) : log_table[i].activity_type = "login_failed"}
      [] etl_result.query = "daily_login_stats" ->
             {i \in 1..Len(log_table) : log_table[i].activity_type = "login"}
      [] OTHER -> {}

\* C27: a query whose input set is empty answers with an explicit
\* insufficient-data result: a record with a message, which no result over
\* rows has.
C27_EmptyInputExplicit ==
    (etl_result.query # "none" /\ QueryInput = {}) =>
        "message" \in DOMAIN etl_result.value

DailyResult(r) == r.query = "daily_login_stats"

\* C26 as stated: a query leaves the table as it is, and a DailyLoginStats(7)
\* call that follows another with no change of the table in between returns
\* the same output.
C26_Idempotent ==
    [][/\ etl_result'.query # "none" => log_table' = log_table
       /\ (DailyResult(etl_result) /\ DailyResult(etl_result') /\ log_table' = log_table)
             => etl_result'.value = etl_result.value]_vars

\* C26 amended: the same for two calls made on the same UTC date.
C26_IdempotentSameDate ==
    [][/\ etl_result'.query # "none" => log_table' = log_table
       /\ (/\ DailyResult(etl_result) /\ DailyResult(etl_result') /\ log_table' = log_table
           /\ etl_result'.at \div 24 = etl_result.at \div 24)
             => etl_result'.value = etl_result.value]_vars

\* A second call an hour after the first, on the same date, with a login
\* of a week ago in the answer.
C26_Witness ==
    /\ DailyResult(etl_result)
    /\ etl_result.at = etl_now /\ etl_now = UsageDays * 24 + 1
    /\ \E e \in etl_result.value.items : e.date = 0 /\ e.total_logins = 2


\* The users of the table with a churn risk score in a set of tenths.
UsersScored(S) ==
    Cardinality({i \in 1..Len(user_table) :
        ChurnRiskScore(user_table[i], log_table, etl_now) \in S})

\* The sum of the counts of a set of segments.
RECURSIVE SumCounts(_)
SumCounts(S) ==
    IF S = {} THEN 0
    ELSE LET b == CHOOSE x \in S : TRUE IN b.count + SumCounts(S \ {b})

\* C23: a segmentation over a table with users has buckets, and their
\* counts sum to the number of users (users with no activity and users
\* active 0 days ago included).
C23_SegmentationExhaustive ==
    (etl_result.query = "user_segmentation" /\ user_table # <<>>) =>
        /\ "user_segments" \in DOMAIN etl_result.value
        /\ SumCounts(etl_result.value.user_segments) = Len(user_table)

\* C24: every score lies in [0.0, 1.0] and the counts of the risk buckets
\* are those of the thresholds Low < 0.3 <= Medium < 0.6 <= High.
C24_RiskBuckets ==
    (etl_result.query = "predictive_insights"
        /\ "churn_analysis" \in DOMAIN etl_result.value) =>
        /\ UsersScored(RiskBins[1]..RiskBins[4]) = Len(user_table)
        /\ etl_result.value.churn_analysis["Low Risk"] = UsersScored(RiskBins[1]..(RiskBins[2] - 1))
        /\ etl_result.value.churn_analysis["Medium Risk"] = UsersScored(RiskBins[2]..(RiskBins[3] - 1))
        /\ etl_result.value.churn_analysis["High Risk"] = UsersScored(RiskBins[3]..RiskBins[4])

\* C28: an entry of the bus history stays as publish_event appended it,
\* whatever the consumers do with the event they are given.
C28_PublishedImmutable ==
    [][\A i \in 1..Len(event_queue) :
           /\ i <= Len(event_queue')
           /\ event_queue'[i] = event_queue[i]]_vars

\* The ids of processed_events, in list order.
ProcessedIdSeq == [i \in 1..Len(processed_events) |-> processed_events[i].id]

\* C29: with a single worker and no processing failure, no event is in
\* processed_events twice, processed_events is in publish order, and once
\* the processor runs for good every published event, published before the
\* start or while stopped included, gets processed.
C29_ProcessedOnceInOrder ==
    /\ [](\A i, j \in 1..Len(processed_events) :
              i < j => ProcessedIdSeq[i] < ProcessedIdSeq[j])
    /\ \A n \in 1..MaxSpPublish :
           <>[](is_running /\ LiveWorkers # {})
               => [](sp_published >= n => <>(n \in ProcessedIds))

\* The single live worker has processed every published event, in publish
\* order, and is back at its loop test.
C29_Witness ==
    /\ is_running /\ Cardinality(LiveWorkers) = 1
    /\ sp_published = MaxSpPublish
    /\ sp_queue = <<>>
    /\ ProcessedIdSeq = [i \in 1..MaxSpPublish |-> i]
    /\ \E w \in LiveWorkers : w_pc[w] = "check"

\* The sum of the per-type counts of a stats result.
RECURSIVE SumTypes(_, _)
SumTypes(counts, types) ==
    IF types = {} THEN 0
    ELSE LET ty == CHOOSE x \in types : TRUE
         IN  counts[ty] + SumTypes(counts, types \ {ty})

\* The number of events processed up to a stats call: the publish number
\* of the last one.
ProcessedUpTo(read) == IF read = <<>> THEN 0 ELSE read[Len(read)].id

\* C30: in a stats result taken while no worker is between its append and
\* its trim, events_last_5_minutes <= total_events_processed <= 1000, the
\* per-type counts sum to events_last_5_minutes, and total_events_processed
\* is the number of events processed up to 1000 and 1000 from there on.
C30_StatsConsistent ==
    (stats.taken /\ stats.between_steps) =>
        /\ stats.events_last_5_minutes <= stats.total_events_processed
        /\ stats.total_events_processed <= KeepLast
        /\ SumTypes(stats.event_types, SpEventTypes) = stats.events_last_5_minutes
        /\ stats.total_events_processed = Min(KeepLast, ProcessedUpTo(stats.read))

\* More than 1000 events processed, the first ones more than five minutes
\* ago: 1000 retained, fewer in the window.
C30_Witness ==
    /\ stats.taken /\ stats.between_steps
    /\ ProcessedUpTo(stats.read) > KeepLast
    /\ stats.total_events_processed = KeepLast
    /\ stats.events_last_5_minutes > 0
    /\ stats.events_last_5_minutes < stats.total_events_processed

====
